---- MODULE Spec2Model ----
(***************************************************************************)
(* Model of the miniature (thumbnail) engine of edit-game:                 *)
(*   jugger_video_manipulation/build_miniature.py  (image composition)     *)
(*   miniatures/models.py                          (TeamLogo, TmpImage,    *)
(*                                                  VideoMetadata)         *)
(*                                                                         *)
(* Images are modelled by their geometry: size, the offset of their origin *)
(* in the image they were cropped from, and the list of layers pasted on   *)
(* them.  Floats are modelled as exact rationals n / Den.                  *)
(***************************************************************************)
EXTENDS Integers, Sequences, FiniteSets, TLC

VARIABLES
    rescale,      \* the Rescale object last constructed (build_miniature.Rescale)
    frame,        \* the image handed to rescale_image
    window,       \* what rescale_image returned for the current rescale and frame
    logos,        \* the two emblem images handed to build_team_overlay
    overlay,      \* what build_team_overlay returned for the current logos
    catalog,      \* the TeamLogo table, in primary-key order
    teams,        \* what TeamLogo.identify_team returned on the current catalog
    media,        \* the files on disk: the rendered video and the two team logos
    db,           \* the TmpImage table, the image storage and one VideoMetadata row
    gm,           \* how VideoMetadata.generate_miniature ended on the current row
    api,          \* how the generate_miniature action of the API ended
    rendered,     \* the video files in the rendered directory of each tournament
    videometadata, \* the VideoMetadata table
    ytvideo,      \* the YTVideo table
    sync,         \* how the last call on these tables ended
    channel,      \* the videos of the YouTube channel
    yt,           \* what the last call of YTInteraction or youtube_update gave
    tmpimage,     \* the rows of TmpImage a delete() is followed on
    tmpfiles,     \* the primary keys of the rows whose image file is stored
    deleting,     \* the position of TmpImage.delete
    rushs,        \* the source directory of a tournament and its rushs
    game,         \* the Game table
    gg,           \* how the last generate_games ended
    plates,       \* the overlay and the title plate handed to assemble_miniature
    mini          \* what assemble_miniature returned for the current inputs

windowVars == <<rescale, frame, window>>
overlayVars == <<logos, overlay>>
teamVars == <<catalog, teams>>
dbVars == <<media, db, gm, api>>
assembleVars == <<plates, mini>>
syncVars == <<rendered, videometadata, ytvideo, sync>>
ytVars == <<channel, yt>>
tmpVars == <<tmpimage, tmpfiles, deleting>>
gamesVars == <<rushs, game, gg>>
vars == <<rescale, frame, window, logos, overlay, catalog, teams, media, db, gm,
          api, plates, mini, rendered, videometadata, ytvideo, sync, channel, yt,
          tmpimage, tmpfiles, deleting, rushs, game, gg>>

(***************************************************************************)
(* Bounds of the model.                                                    *)
(***************************************************************************)
\* floats are the rationals n / Den
Den == 4
\* largest zoom numerator: zoom ranges over 0 .. MaxZoomNum / Den
MaxZoomNum == 8

\* offsets range over -1/Den .. (Den+1)/Den : below 0, inside [0,1], above 1
OffsetNums == -1 .. (Den + 1)
ZoomNums == 0 .. MaxZoomNum

(***************************************************************************)
(* Python and PIL primitives.                                              *)
(***************************************************************************)
\* int(n / d) for d > 0: truncation toward zero
IntTrunc(n, d) == IF n >= 0 THEN n \div d ELSE -((-n) \div d)

\* a PIL image of the given size, nothing pasted on it
Img(size) ==
    [err |-> "none", msg |-> "", size |-> size, off |-> <<0, 0>>, layers |-> <<>>]

\* an exception leaving the function instead of a value
Raise(e, m) ==
    [err |-> e, msg |-> m, size |-> <<0, 0>>, off |-> <<0, 0>>, layers |-> <<>>]

\* Image.resize(size): PIL refuses an empty target
resize(image, size) ==
    IF size[1] < 1 \/ size[2] < 1
    THEN Raise("ValueError", "height and width must be > 0")
    ELSE Img(size)

\* Image.crop((left, upper, right, lower)): the result has the size of the
\* box whether or not the box lies inside the image
crop(image, box) ==
    [err |-> "none", msg |-> "",
     size |-> <<box[3] - box[1], box[4] - box[2]>>,
     off |-> <<box[1], box[2]>>, layers |-> <<>>]

\* Image.paste(layer, pos): in place on the destination
paste(dest, layer) == [dest EXCEPT !.layers = Append(@, layer)]

(***************************************************************************)
(* build_miniature.Rescale                                                 *)
(***************************************************************************)
Rescale_init(x, y, z) ==
    [err |-> "none", x_offset |-> x, y_offset |-> y, zoom |-> z]

(***************************************************************************)
(* build_miniature.rescale_image                                           *)
(***************************************************************************)
\* mutant: the offsets are not validated
rescale_check_zoom_only(r) ==
    IF r.zoom < Den THEN "zoom must be >=1" ELSE ""

\* the two guards at the head of rescale_image: the message of the
\* ValueError raised, "" when none is
rescale_check(r) ==
    IF r.zoom < Den
    THEN "zoom must be >=1"
    ELSE IF r.x_offset < 0 \/ r.y_offset < 0 \/ r.x_offset > Den \/ r.y_offset > Den
    THEN "x_offset and y_offset must be between 0 and 1"
    ELSE ""

\* mutant: the window is clamped to the zoomed image
window_box_clamped(zoomed, zx, zy) ==
    <<zx, zy,
      IF 1920 + zx > zoomed.size[1] THEN zoomed.size[1] ELSE 1920 + zx,
      IF 1080 + zy > zoomed.size[2] THEN zoomed.size[2] ELSE 1080 + zy>>

\* the crop box of the window
window_box(zoomed, zx, zy) == <<zx, zy, 1920 + zx, 1080 + zy>>

\* mutant: the zoomed image has the size of the frame times zoom
zoomed_image_of_frame(image, r) ==
    resize(image, <<IntTrunc(image.size[1] * r.zoom, Den),
                    IntTrunc(image.size[2] * r.zoom, Den)>>)

\* image.resize((int(1920 * rescale.zoom), int(1080 * rescale.zoom)))
zoomed_image(image, r) ==
    resize(image, <<IntTrunc(1920 * r.zoom, Den), IntTrunc(1080 * r.zoom, Den)>>)

\* mutant: the horizontal slack forgets the 600 columns left of the window
rescale_image_no_slack(image, r) ==
    IF rescale_check(r) # ""
    THEN Raise("ValueError", rescale_check(r))
    ELSE
      LET zoomed == zoomed_image(image, r)
          zx == IntTrunc(r.x_offset * (zoomed.size[1] - 1920), Den)
          zy == IntTrunc(r.y_offset * (zoomed.size[2] - 1080), Den)
      IN  crop(zoomed, window_box(zoomed, zx, zy))

rescale_image(image, r) ==
    IF rescale_check(r) # ""
    THEN Raise("ValueError", rescale_check(r))
    ELSE
      LET zoomed == zoomed_image(image, r)
          zx == IntTrunc(r.x_offset * (zoomed.size[1] + 600 - 1920), Den)
          zy == IntTrunc(r.y_offset * (zoomed.size[2] - 1080), Den)
      IN  crop(zoomed, window_box(zoomed, zx, zy))

(***************************************************************************)
(* build_miniature.rescale_logo                                            *)
(***************************************************************************)
rescale_logo(logo) ==
    LET width == 850
        max_height == 850
        first == resize(logo, <<width, IntTrunc(width * logo.size[2], logo.size[1])>>)
    IN  IF first.err # "none" THEN first
        ELSE IF first.size[2] > max_height
        THEN resize(first, <<IntTrunc(max_height * first.size[1], first.size[2]),
                             max_height>>)
        ELSE first

(***************************************************************************)
(* build_miniature.paste_image_with_shadow                                 *)
(* The only paste on background_image is that of shadow_logo, a black      *)
(* canvas of the size of image carrying the half-scale copy of image at    *)
(* new_center, through the blurred mask.                                   *)
(***************************************************************************)
\* mutant: the source image is pasted at full size over its shadow
paste_image_with_shadow_then_source(background_image, image, pos, shade) ==
    LET x == image.size[1]
        y == image.size[2]
        rescaled_image == resize(image, <<IntTrunc(x, 2), IntTrunc(y, 2)>>)
        new_center == <<(x \div 2) - (rescaled_image.size[1] \div 2),
                        (y \div 2) - (rescaled_image.size[2] \div 2)>>
    IN  IF rescaled_image.err # "none" THEN rescaled_image
        ELSE paste(paste(background_image,
                         [name |-> "shadow_logo", pos |-> pos, size |-> image.size,
                          inner |-> rescaled_image.size, inner_at |-> new_center,
                          shade |-> shade]),
                   [name |-> "image", pos |-> pos, size |-> image.size,
                    inner |-> image.size, inner_at |-> <<0, 0>>, shade |-> 0])

\* mutant: the half-scale copy is stamped at the origin of shadow_logo
paste_image_with_shadow_at_origin(background_image, image, pos, shade) ==
    LET x == image.size[1]
        y == image.size[2]
        rescaled_image == resize(image, <<IntTrunc(x, 2), IntTrunc(y, 2)>>)
    IN  IF rescaled_image.err # "none" THEN rescaled_image
        ELSE paste(background_image,
                   [name |-> "shadow_logo", pos |-> pos, size |-> image.size,
                    inner |-> rescaled_image.size, inner_at |-> <<0, 0>>,
                    shade |-> shade])

paste_image_with_shadow(background_image, image, pos, shade) ==
    LET x == image.size[1]
        y == image.size[2]
        rescaled_image == resize(image, <<IntTrunc(x, 2), IntTrunc(y, 2)>>)
        new_center == <<(x \div 2) - (rescaled_image.size[1] \div 2),
                        (y \div 2) - (rescaled_image.size[2] \div 2)>>
    IN  IF rescaled_image.err # "none" THEN rescaled_image
        ELSE paste(background_image,
                   [name |-> "shadow_logo", pos |-> pos, size |-> image.size,
                    inner |-> rescaled_image.size, inner_at |-> new_center,
                    shade |-> shade])

\* mutant: shadow_logo is pasted on image
paste_image_with_shadow_image_pasted(background_image, image, pos, shade) ==
    paste(image, [name |-> "shadow_logo", pos |-> pos, size |-> image.size,
                  inner |-> <<0, 0>>, inner_at |-> <<0, 0>>, shade |-> shade])

\* the object passed as image, once paste_image_with_shadow has returned: the
\* function reads its size, resizes it into a new image and splits the copy;
\* every paste has shadow_logo, mask or background_image as destination
paste_image_with_shadow_image_after(background_image, image, pos, shade) == image

(***************************************************************************)
(* build_miniature.build_team_overlay                                      *)
(* background is "color" (a string PIL knows as a colour), "badcolor" (a   *)
(* string it does not) or "image" (an Image.Image).                        *)
(***************************************************************************)
recenter(img, pos) ==
    <<pos[1] - IntTrunc(img.size[1], 2), pos[2] - IntTrunc(img.size[2], 2)>>

\* mutant: the isinstance test is dropped
background_is_str_always(background) == TRUE

\* isinstance(background, str)
background_is_str(background) == background \in {"color", "badcolor"}

build_team_overlay(logo1_rescaled, logo2_rescaled, background) ==
    IF ~ background_is_str(background)
    THEN Raise("NotImplementedError", "background_color must be a string.")
    ELSE IF background # "color"
    THEN Raise("ValueError", "unknown color specifier")
    ELSE
      LET overlay_image ==
              paste(Img(<<1920, 1080>>),
                    [name |-> "background_image", pos |-> <<-1100, -300>>,
                     size |-> <<0, 0>>, inner |-> <<0, 0>>, inner_at |-> <<0, 0>>,
                     shade |-> 0])
          logo1_pos == <<300, 1080 \div 4>>
          logo2_pos == <<450, (3 * 1080) \div 4>>
          logo1 == rescale_logo(logo1_rescaled)
      IN  IF logo1.err # "none" THEN logo1
          ELSE
            LET logo2 == rescale_logo(logo2_rescaled)
            IN  IF logo2.err # "none" THEN logo2
                ELSE
                  LET with1 == paste_image_with_shadow(
                                   overlay_image, logo1, recenter(logo1, logo1_pos), 10)
                  IN  IF with1.err # "none" THEN with1
                      ELSE paste_image_with_shadow(
                               with1, logo2, recenter(logo2, logo2_pos), 10)

\* the two logo objects of the caller, once build_team_overlay has returned:
\* the parameter names are rebound to the new images rescale_logo returns, and
\* those are what paste_image_with_shadow is given
build_team_overlay_inputs_after(logo1_rescaled, logo2_rescaled, background) ==
    <<logo1_rescaled, logo2_rescaled>>

(***************************************************************************)
(* build_miniature.generate_text_as_image, assemble_miniature and          *)
(* generate_miniature                                                      *)
(***************************************************************************)
\* round(n / d) for n >= 0, d > 0 as Python rounds: halves to the even side
Round(n, d) ==
    LET q == n \div d
        r == n % d
    IN  IF 2 * r < d THEN q
        ELSE IF 2 * r > d THEN q + 1
        ELSE IF q % 2 = 0 THEN q ELSE q + 1

\* the title plate; dimensions is what get_text_dimensions measures
generate_text_as_image(dimensions) ==
    Img(<<dimensions[1] + 12, dimensions[2] + 8>>)

\* mutant: the two branches of the 16:9 crop are exchanged
aspect_crop_exchanged(image) ==
    LET x == image.size[1]
        y == image.size[2]
    IN  IF 9 * x > 16 * y
        THEN crop(image, <<0, 0, x, Round(x * 9, 16)>>)
        ELSE crop(image, <<0, 0, Round(y * 16, 9), y>>)

\* the 16:9 crop at the head of assemble_miniature (crop rounds its box)
aspect_crop(image) ==
    LET x == image.size[1]
        y == image.size[2]
    IN  IF 9 * x > 16 * y
        THEN crop(image, <<0, 0, Round(y * 16, 9), y>>)
        ELSE crop(image, <<0, 0, x, Round(x * 9, 16)>>)

\* mutant: the frame is pasted at the origin of the canvas
paste_frame_at_origin(miniature_image, rescaled_image) ==
    paste(miniature_image,
          [name |-> "rescaled_image", pos |-> <<0, 0>>,
           size |-> rescaled_image.size, inner |-> <<0, 0>>,
           inner_at |-> rescaled_image.off, shade |-> 0])

\* miniature_image.paste(rescaled_image, (600, 0)); inner_at is the place of
\* the window in the zoomed frame
paste_frame(miniature_image, rescaled_image) ==
    paste(miniature_image,
          [name |-> "rescaled_image", pos |-> <<600, 0>>,
           size |-> rescaled_image.size, inner |-> <<0, 0>>,
           inner_at |-> rescaled_image.off, shade |-> 0])

\* mutant: the wash is put under what the canvas already carries
paste_wash_below(miniature_image, cropped) ==
    [miniature_image EXCEPT !.layers =
        <<[name |-> "alpha_mask", pos |-> <<0, 0>>, size |-> cropped.size,
           inner |-> <<1920, 1080>>, inner_at |-> <<0, 0>>, shade |-> 0]>> \o @]

\* alpha_mask has the size of the cropped frame and carries the rectangle
\* ((0, 0), (1920, 1080)) of black at alpha 40; it is pasted at (0, 0)
paste_wash(miniature_image, cropped) ==
    paste(miniature_image,
          [name |-> "alpha_mask", pos |-> <<0, 0>>, size |-> cropped.size,
           inner |-> <<1920, 1080>>, inner_at |-> <<0, 0>>, shade |-> 0])

\* assemble_miniature up to the paste of the overlay: the canvas that is then
\* given the title plate
assemble_overlay(image, overlay_in, r) ==
    LET miniature_image == Img(<<1920, 1080>>)
        cropped == aspect_crop(image)
        rescaled_image == rescale_image(cropped, r)
    IN  IF rescaled_image.err # "none" THEN rescaled_image
        ELSE
          LET framed == paste_frame(miniature_image, rescaled_image)
              washed == paste_wash(framed, cropped)
              big == resize(overlay_in, <<overlay_in.size[1] * 2,
                                          overlay_in.size[2] * 2>>)
          IN  IF big.err # "none" THEN big
              ELSE paste_image_with_shadow(
                       washed, big,
                       <<(-big.size[1]) \div 4, (-big.size[2]) \div 4>>, 20)

assemble_miniature(image, overlay_in, tournament_name, pos_tournament_name, r) ==
    LET with_overlay == assemble_overlay(image, overlay_in, r)
    IN  IF with_overlay.err # "none" THEN with_overlay
        ELSE paste_image_with_shadow(
                 with_overlay, tournament_name, pos_tournament_name, 10)

\* the three image objects of the caller, once assemble_miniature has
\* returned: image is cropped and overlay resized into new images, and
\* tournament_name is the image argument of the last paste_image_with_shadow
assemble_miniature_inputs_after(image, overlay_in, tournament_name, pos, r) ==
    LET with_overlay == assemble_overlay(image, overlay_in, r)
    IN  <<image, overlay_in,
          IF with_overlay.err # "none" THEN tournament_name
          ELSE paste_image_with_shadow_image_after(
                   with_overlay, tournament_name, pos, 10)>>

\* team1 and team2 are the opened logo images, text_dimensions the measure of
\* the upper-cased tournament name
generate_miniature(base_image, text_dimensions, tournament_color, team1, team2, r) ==
    LET team_overlay == build_team_overlay(team1, team2, tournament_color)
    IN  IF team_overlay.err # "none" THEN team_overlay
        ELSE
          LET tournament_title == generate_text_as_image(text_dimensions)
              pos_tournament_title ==
                  <<1920 - ((tournament_title.size[1] * 3) \div 4) - 80, 600>>
          IN  assemble_miniature(base_image, team_overlay, tournament_title,
                                 pos_tournament_title, r)

(***************************************************************************)
(* jugger_video_manipulation.utils.get_frame                               *)
(***************************************************************************)
get_frame(video_size) ==
    resize(Img(video_size), <<1920, IntTrunc(1920 * video_size[2], video_size[1])>>)

(***************************************************************************)
(* miniatures.models.TmpImage                                              *)
(* d is the database and the storage: d.TmpImage maps the primary keys of  *)
(* the rows to their names, d.storage holds the keys of the rows whose     *)
(* image file exists, d.vm is the VideoMetadata row.  None is 0.           *)
(***************************************************************************)
\* TmpImage.delete: the file first, then the row; the foreign keys of
\* VideoMetadata are on_delete=SET_NULL
TmpImage_delete(d, pk) ==
    [d EXCEPT !.storage = d.storage \ {pk},
              !.TmpImage = [k \in (DOMAIN d.TmpImage) \ {pk} |-> d.TmpImage[k]],
              !.vm.base_image = IF d.vm.base_image = pk THEN 0 ELSE d.vm.base_image,
              !.vm.miniature_image =
                  IF d.vm.miniature_image = pk THEN 0 ELSE d.vm.miniature_image]

\* TmpImage(name=name), from_pil(image), save(): a file and a row
TmpImage_create(d, name) ==
    [d EXCEPT !.storage = d.storage \cup {d.next_pk},
              !.TmpImage = [k \in (DOMAIN d.TmpImage) \cup {d.next_pk} |->
                               IF k = d.next_pk THEN name ELSE d.TmpImage[k]],
              !.next_pk = d.next_pk + 1]

(***************************************************************************)
(* miniatures.models.VideoMetadata.generate_miniature                      *)
(***************************************************************************)
\* base_file_name + "_base.jpeg" != self.base_image.image.file compares a str
\* with the File object the storage opened: objects of different types are
\* never equal
str_ne_file(name, file) ==
    IF name.type # file.type THEN TRUE ELSE name.value # file.value

\* "_".join((tournament.slug, slugify(name[:-4]), str(time_code))) + suffix
file_name(row, suffix) ==
    [type |-> "str", value |-> <<row.time_code, suffix>>]

\* the whole method on the row d.vm: the database and storage it leaves, and
\* the exception it raises if any
VideoMetadata_generate_miniature(d, m) ==
    IF d.vm.tournament = 0
    THEN [db |-> d, err |-> "ValueError", msg |-> "Tournament is not set"]
    ELSE
      LET self == d.vm
          base_name == file_name(self, "_base.jpeg")
          stale == IF self.base_image = 0 THEN FALSE
                   ELSE str_ne_file(base_name,
                                    [type |-> "File",
                                     value |-> d.TmpImage[self.base_image]])
          d1 == IF stale THEN TmpImage_delete(d, self.base_image) ELSE d
          extract == self.base_image = 0 \/ stale
          d2 == IF extract THEN TmpImage_create(d1, base_name.value) ELSE d1
          self_base_image == IF extract THEN d1.next_pk ELSE self.base_image
          r == Rescale_init(self.miniature_x_offset, self.miniature_y_offset,
                            self.miniature_zoom)
      IN  IF extract /\ get_frame(m.video).err # "none"
          THEN [db |-> d1, err |-> get_frame(m.video).err,
                msg |-> get_frame(m.video).msg]
          ELSE IF self.team1 = 0 \/ self.team2 = 0
          THEN [db |-> d2, err |-> "ValueError", msg |-> "Teams are not set"]
          ELSE
            LET new_miniature_image ==
                    IF extract
                    THEN generate_miniature(get_frame(m.video), m.text_dimensions,
                                            m.color, Img(m.logo1), Img(m.logo2), r)
                    ELSE \* base_image is the stored ImageFieldFile, whose size
                         \* is a number of bytes: x, y = image.size fails
                         IF build_team_overlay(Img(m.logo1), Img(m.logo2),
                                               m.color).err # "none"
                         THEN build_team_overlay(Img(m.logo1), Img(m.logo2), m.color)
                         ELSE Raise("TypeError",
                                    "cannot unpack non-iterable int object")
            IN  IF new_miniature_image.err # "none"
                THEN [db |-> d2, err |-> new_miniature_image.err,
                      msg |-> new_miniature_image.msg]
                ELSE
                  LET d3 == IF self.miniature_image # 0
                            THEN TmpImage_delete(d2, self.miniature_image)
                            ELSE d2
                      d4 == TmpImage_create(
                                d3, file_name(self, "_thumbnail.jpeg").value)
                  IN  [db |-> [d4 EXCEPT !.vm.base_image = self_base_image,
                                         !.vm.miniature_image = d3.next_pk],
                       err |-> "none", msg |-> ""]

(***************************************************************************)
(* api.views.VideoMetadataViewSet.generate_miniature                       *)
(* data is request.data: a record of the keys xoffset, yoffset, zoom,      *)
(* timeCode, team1 and team2, where Absent stands for a key that is not in *)
(* the request (a number no key takes); the numbers are numerators over    *)
(* Den, a team is the primary key its URL resolves to.                     *)
(***************************************************************************)
Absent == -99

\* request.data.get(key, default)
data_get(data, key, default) ==
    IF data[key] = Absent THEN default ELSE data[key]

\* the keyword parameters of VideoMetadata.generate_miniature(self)
generate_miniature_parameters == {}

\* instance.generate_miniature(**kwargs): Python binds the arguments before
\* the body runs, and raises TypeError on a keyword the method does not have
instance_generate_miniature(d, m, kwargs) ==
    IF ~ (kwargs \subseteq generate_miniature_parameters)
    THEN [db |-> d, err |-> "TypeError",
          msg |-> "generate_miniature() got an unexpected keyword argument"]
    ELSE VideoMetadata_generate_miniature(d, m)

\* Response(VideoMetadataSerializer(instance).data) once generate_miniature
\* has returned; an exception of generate_miniature escapes the action
serialized(out) ==
    [db |-> out.db, err |-> out.err, msg |-> out.msg,
     response |-> IF out.err = "none" THEN out.db.vm ELSE 0]

\* the whole action: the database it leaves, the exception that escapes it if
\* any, and the row it serializes into the response
VideoMetadataViewSet_generate_miniature(d, m, data) ==
    LET instance == d.vm
        xoffset == data_get(data, "xoffset", Den)
        yoffset == data_get(data, "yoffset", 0)
        zoom == data_get(data, "zoom", Den)
        \* instance.tc is an attribute of the object, not the time_code field:
        \* save() writes the row as it was
        reset1 == data.team1 # Absent /\ data.team1 # instance.team1
        team1 == data_get(data, "team1", instance.team1)
        \* team2 is compared with team1
        reset2 == data.team2 # Absent /\ data.team2 # team1
        team2 == data_get(data, "team2", instance.team2)
        d1 == [d EXCEPT !.vm.team1 = team1, !.vm.team2 = team2]
    IN  IF (reset1 \/ reset2)
           /\ (d1.vm.tournament = 0 \/ d1.vm.team1 = 0 \/ d1.vm.team2 = 0)
        THEN [db |-> d1, err |-> "ValueError",
              msg |-> "Tournament, team1 and team2 are not set",
              response |-> 0]
        ELSE
          serialized(instance_generate_miniature(
                         d1, m, {"x_offset", "y_offset", "zoom"}))

(***************************************************************************)
(* miniatures.models.TeamLogo.identify_team                                *)
(* A string is a sequence of one-character strings; a TeamLogo is a record *)
(* [name, short_name]; a TeamLogo is named by its primary key, its index   *)
(* in the catalog, and None is 0.                                          *)
(***************************************************************************)
\* the case folding of the database's case-insensitive comparison
fold_char(c) ==
    CASE c = "A" -> "a"
      [] c = "B" -> "b"
      [] c = "X" -> "x"
      [] OTHER -> c

fold(s) == [i \in 1 .. Len(s) |-> fold_char(s[i])]

\* s occurs in text as a substring
contains(text, s) ==
    \E i \in 0 .. (Len(text) - Len(s)) : SubSeq(text, i + 1, i + Len(s)) = s

\* mutant: the lookup compares case-sensitively (contains instead of icontains)
icontains_exact(text, s) == contains(text, s)

\* the lookup fname__icontains=F(column)
icontains(text, s) == contains(fold(text), fold(s))

\* Q(fname__icontains=F("short_name")) | Q(fname__icontains=F("name"))
team_filter(logo, filename) ==
    icontains(filename, logo.short_name) \/ icontains(filename, logo.name)

\* the rows the filter keeps
matching(cat, filename) ==
    {pk \in 1 .. Len(cat) : team_filter(cat[pk], filename)}

\* mutant: the rows are ordered by descending length
length_desc(cat, a, b) == Len(cat[a].short_name) >= Len(cat[b].short_name)

\* order_by(Length("short_name").asc()): row a may come before row b
length_asc(cat, a, b) == Len(cat[a].short_name) <= Len(cat[b].short_name)

\* the orders in which the database may return the filtered rows: rows of
\* equal length in any order
requests(cat, filename) ==
    LET m == matching(cat, filename)
    IN  {q \in [1 .. Cardinality(m) -> m] :
            /\ \A i, j \in 1 .. Cardinality(m) : i # j => q[i] # q[j]
            /\ \A i, j \in 1 .. Cardinality(m) :
                   i < j => length_asc(cat, q[i], q[j])}

\* mutant: the padding takes the last row of the table
objects_last(cat) == Len(cat)

\* TeamLogo.objects.first(): the row of lowest primary key, None without rows
objects_first(cat) == IF Len(cat) = 0 THEN 0 ELSE 1

\* mutant: the pair is returned in list order
last_two_in_order(l) == <<l[Len(l) - 1], l[Len(l)]>>

\* return teams[-1], teams[-2]
last_two_reversed(l) == <<l[Len(l)], l[Len(l) - 1]>>

\* identify_team with the filtered rows returned in the order request
identify_team(cat, filename, request) ==
    LET first_two == SubSeq(request, 1, IF Len(request) < 2 THEN Len(request) ELSE 2)
        team_list == <<objects_first(cat), objects_first(cat)>> \o first_two
    IN  last_two_reversed(team_list)

(***************************************************************************)
(* miniatures.models.VideoMetadataManager.create, reset_vid_name and       *)
(* make_metadata                                                           *)
(* A VideoMetadata row is [name, tournament, team1, team2, time_code,      *)
(* video_name, miniature]; its primary key is its index in the table.      *)
(* tournaments maps a tournament to its name, cat is the TeamLogo table.   *)
(***************************************************************************)
\* str.upper() on the letters of the tournament names
upper_char(c) ==
    CASE c = "t" -> "T"
      [] c = "u" -> "U"
      [] OTHER -> c

upper(s) == [i \in 1 .. Len(s) |-> upper_char(s[i])]

\* f"{team1.name} vs {team2.name} | {tournament.name.upper()} [JUGGER]"
reset_vid_name(cat, tournaments, row) ==
    cat[row.team1].name \o <<" vs ">> \o cat[row.team2].name \o <<" | ">>
        \o upper(tournaments[row.tournament]) \o <<" [JUGGER]">>

\* context["vid_name"] of make_metadata
make_metadata_vid_name(cat, tournaments, row) ==
    (cat[row.team1].name \o <<" vs ">> \o cat[row.team2].name) \o <<" | ">>
        \o upper(tournaments[row.tournament]) \o <<" [JUGGER]">>

\* f"{name} vs {team1.name} vs {team2.name} | {tournament.name.upper()} [JUGGER]"
create_video_name(cat, tournaments, obj_data) ==
    obj_data.name \o <<" vs ">> \o cat[obj_data.team1].name \o <<" vs ">>
        \o cat[obj_data.team2].name \o <<" | ">>
        \o upper(tournaments[obj_data.tournament]) \o <<" [JUGGER]">>

\* the fields of VideoMetadata a caller of create may name
VideoMetadataFields ==
    {"name", "tournament", "team1", "team2", "time_code", "video_name",
     "description", "publication_date", "miniature_x_offset",
     "miniature_y_offset", "miniature_zoom", "base_image", "miniature_image"}

\* VideoMetadata.objects.create(**obj_data): the table it leaves and the
\* exception it raises if any
VideoMetadataManager_create(tab, cat, tournaments, obj_data) ==
    IF "time_code" \notin DOMAIN obj_data
    THEN [tab |-> tab, err |-> "KeyError"]
    ELSE IF ~ (DOMAIN obj_data \subseteq VideoMetadataFields)
    THEN [tab |-> tab, err |-> "TypeError"]
    ELSE IF \E pk \in 1 .. Len(tab) :
                tab[pk].name = obj_data.name
                /\ tab[pk].tournament = obj_data.tournament
    THEN [tab |-> tab, err |-> "IntegrityError"]
    ELSE [tab |-> Append(tab, [name |-> obj_data.name,
                               tournament |-> obj_data.tournament,
                               team1 |-> obj_data.team1,
                               team2 |-> obj_data.team2,
                               time_code |-> obj_data.time_code,
                               video_name |-> create_video_name(
                                                  cat, tournaments, obj_data),
                               miniature |-> FALSE]),
          err |-> "none"]

(***************************************************************************)
(* miniatures.models.YTVideoManager.update_linked_video                    *)
(* A YTVideo row is [video_id, title, linked_video, publication_date,      *)
(* privacy_status]; None is 0.                                             *)
(***************************************************************************)
\* self.update(linked_video=Subquery(games.values("pk")[:1])): every row of
\* the table is given the value of the subquery, NULL where it has no row
update_value(old, candidates, chosen) ==
    IF candidates = {} THEN 0 ELSE chosen

\* the rows of games for the YTVideo y: the VideoMetadata of the tournament
\* (all of them if tournament is None) whose name or video_name has the
\* title of y in it
games(tab, y, tournament) ==
    {pk \in 1 .. Len(tab) :
        /\ tournament # 0 => tab[pk].tournament = tournament
        /\ \/ icontains(tab[pk].name, y.title)
           \/ icontains(tab[pk].video_name, y.title)}

\* the subquery has no ORDER BY: first[i] is the row the database returns
\* first for the i-th YTVideo
update_linked_video(tab, yts, tournament, first) ==
    [i \in 1 .. Len(yts) |->
        [yts[i] EXCEPT !.linked_video =
            update_value(@, games(tab, yts[i], tournament), first[i])]]

\* the choices of first the database may make
firsts(tab, yts, tournament) ==
    {f \in [1 .. Len(yts) -> 0 .. Len(tab)] :
        \A i \in 1 .. Len(yts) :
            IF games(tab, yts[i], tournament) = {} THEN f[i] = 0
            ELSE f[i] \in games(tab, yts[i], tournament)}

(***************************************************************************)
(* game_edit.models.Tournament.generate_games                              *)
(* A string is the sequence of its characters; a directory is the set of   *)
(* the names of its files.                                                 *)
(***************************************************************************)
Digits == {"0", "1", "2", "3", "4", "5", "6", "7", "8", "9"}

digit(c) ==
    CASE c = "0" -> 0 [] c = "1" -> 1 [] c = "2" -> 2 [] c = "3" -> 3
      [] c = "4" -> 4 [] c = "5" -> 5 [] c = "6" -> 6 [] c = "7" -> 7
      [] c = "8" -> 8 [] c = "9" -> 9

\* int(s) of a string of digits
RECURSIVE int(_)
int(s) ==
    IF s = <<>> THEN 0
    ELSE 10 * int(SubSeq(s, 1, Len(s) - 1)) + digit(s[Len(s)])

\* str(n) of a natural number
RECURSIVE str(_)
str(n) ==
    LET last == CHOOSE c \in Digits : digit(c) = n % 10
    IN  IF n < 10 THEN <<last>> ELSE str(n \div 10) \o <<last>>

\* pathlib: a / b, where an absolute b replaces a
joinpath(a, b) ==
    IF b # <<>> /\ b[1] = "/" THEN b ELSE a \o <<"/">> \o b

\* self.source_dir_path / "rushs"
vid_dir(source_dir) == joinpath(source_dir, <<"r", "u", "s", "h", "s">>)

\* vid_dir.iterdir(): the paths vid_dir / name of the files, in the order of
\* the listing
iterdir(source_dir, listing) ==
    [i \in 1 .. Len(listing) |-> joinpath(vid_dir(source_dir), listing[i])]

\* Path.is_file() in a file system that holds the rushs and nothing else
is_file(path, source_dir, names) ==
    \E n \in names : path = joinpath(vid_dir(source_dir), n)

\* Path.suffix: the final component from its last dot on
suffix(path) ==
    LET dots == {i \in 1 .. Len(path) : path[i] = "."}
        slashes == {i \in 1 .. Len(path) : path[i] = "/"}
        dot == CHOOSE i \in dots : \A j \in dots : j <= i
    IN  IF dots = {} \/ (\E j \in slashes : j + 1 >= dot) \/ dot = 1
        THEN <<>>
        ELSE SubSeq(path, dot, Len(path))

\* re.compile(r"^GX(\d{2})(\d{4})\.MP4$").search(s): ^ anchors the match at
\* the first character of s and $ at its end
exp_search(s) ==
    IF /\ Len(s) = 12
       /\ s[1] = "G" /\ s[2] = "X"
       /\ \A i \in 3 .. 8 : s[i] \in Digits
       /\ SubSeq(s, 9, 12) = <<".", "M", "P", "4">>
    THEN [matched |-> TRUE, group1 |-> SubSeq(s, 3, 4),
          group2 |-> SubSeq(s, 5, 8)]
    ELSE [matched |-> FALSE, group1 |-> <<>>, group2 |-> <<>>]

\* the first loop: videos maps a number to the list of its chapters; keys is
\* the order in which the numbers entered the dictionary
RECURSIVE collect(_, _, _, _, _)
collect(source_dir, names, listing, i, videos) ==
    IF i > Len(listing) THEN videos
    ELSE
      LET path == iterdir(source_dir, listing)[i]
          val == exp_search(path)
          key == int(val.group2)
      IN  IF /\ is_file(joinpath(vid_dir(source_dir), path), source_dir, names)
             /\ suffix(path) = <<".", "M", "P", "4">>
             /\ val.matched
          THEN collect(source_dir, names, listing, i + 1,
                   [keys |-> IF key \in DOMAIN videos.lists THEN videos.keys
                             ELSE Append(videos.keys, key),
                    lists |-> [k \in (DOMAIN videos.lists) \cup {key} |->
                                  IF k = key
                                  THEN (IF key \in DOMAIN videos.lists
                                        THEN videos.lists[key] ELSE <<>>)
                                           \o <<int(val.group1)>>
                                  ELSE videos.lists[k]]])
          ELSE collect(source_dir, names, listing, i + 1, videos)

\* "VID00" + str(key) + ".json"
base_name(key) ==
    <<"V", "I", "D", "0", "0">> \o str(key) \o <<".", "j", "s", "o", "n">>

\* the second loop: a Game for each number no Game has the base name of
RECURSIVE create_games(_, _, _)
create_games(tab, videos, i) ==
    IF i > Len(videos.keys) THEN tab
    ELSE
      LET key == videos.keys[i]
          found == {pk \in 1 .. Len(tab) : tab[pk].source_name = base_name(key)}
      IN  IF Cardinality(found) = 0
          THEN create_games(
                   Append(tab, [name |-> str(key), source_name |-> str(key),
                                video_id |-> SortSeq(videos.lists[key],
                                                     LAMBDA a, b : a < b)]),
                   videos, i + 1)
          ELSE create_games(tab, videos, i + 1)

\* Tournament.generate_games(): the Game table it leaves
generate_games(tab, source_dir, names, listing) ==
    create_games(tab,
                 collect(source_dir, names, listing, 1,
                         [keys |-> <<>>, lists |-> [k \in {} |-> <<>>]]),
                 1)

(***************************************************************************)
(* miniatures.youtube_interaction.yt_interaction.YTInteraction             *)
(* The channel is the sequence of its uploads, each a YtVideoMetadata      *)
(* [video_id, title, date, status]; a date is a number of days.            *)
(***************************************************************************)
\* the default of from_date, datetime(2023, 12, 10)
DefaultFromDate == 1

\* the loop over the pages of the uploads playlist: every item of every page
\* is appended to output; _from_date is computed and not read again
get_video_list(uploads, from_date) ==
    LET from_date_utc == from_date
    IN  [i \in 1 .. Len(uploads) |-> uploads[i]]

\* YTInteraction.get_all_videos(from_date)
get_all_videos(uploads, from_date) == get_video_list(uploads, from_date)

(***************************************************************************)
(* miniatures.models.YTVideo.youtube_update                                *)
(***************************************************************************)
\* the primary key of the YTVideo with this video_id, 0 if there is none
by_video_id(yts, video_id) ==
    IF \E pk \in 1 .. Len(yts) : yts[pk].video_id = video_id
    THEN CHOOSE pk \in 1 .. Len(yts) : yts[pk].video_id = video_id
    ELSE 0

\* YTVideo.objects.get_or_create(video_id=..., defaults={...}): the table
\* with the row in it
get_or_create(yts, video) ==
    IF by_video_id(yts, video.video_id) # 0 THEN yts
    ELSE Append(yts, [video_id |-> video.video_id, title |-> video.title,
                      linked_video |-> 0, publication_date |-> video.date,
                      privacy_status |-> video.status])

\* if vid.title != video.title: the three fields are copied
refresh(vid, video) ==
    IF vid.title # video.title
    THEN [vid EXCEPT !.title = video.title, !.publication_date = video.date,
                     !.privacy_status = video.status]
    ELSE vid

\* the VideoMetadata the title of vid names
filtered_videos_metadata(tab, vid, tournament) ==
    {pk \in 1 .. Len(tab) :
        \/ tab[pk].name = vid.title /\ tab[pk].tournament = tournament
        \/ tab[pk].video_name = vid.title}

\* the body of the loop for one video; first is the row the unordered query
\* returns first
update_one(yts, tab, video, tournament, sync_local_videos, first) ==
    LET made == get_or_create(yts, video)
        pk == by_video_id(made, video.video_id)
        vid == refresh(made[pk], video)
        found == filtered_videos_metadata(tab, vid, tournament)
    IN  [made EXCEPT ![pk] =
            IF sync_local_videos /\ vid.linked_video = 0 /\ found # {}
            THEN [vid EXCEPT !.linked_video =
                     IF first \in found THEN first ELSE CHOOSE f \in found : TRUE]
            ELSE vid]

RECURSIVE youtube_update_from(_, _, _, _, _, _, _)
\* the loop from the i-th video on
youtube_update_from(yts, tab, videos, tournament, sync_local_videos, first, i) ==
    IF i > Len(videos) THEN yts
    ELSE youtube_update_from(
             update_one(yts, tab, videos[i], tournament, sync_local_videos, first),
             tab, videos, tournament, sync_local_videos, first, i + 1)

\* YTVideo.youtube_update(tournament, sync_local_videos=...)
youtube_update(yts, tab, uploads, tournament, sync_local_videos, first) ==
    youtube_update_from(yts, tab, get_all_videos(uploads, DefaultFromDate),
                        tournament, sync_local_videos, first, 1)

(***************************************************************************)
(* api.views.TournamentsViewSet.sync_videos                                *)
(* videos is the list get_video_file_names returns, in directory order.    *)
(***************************************************************************)
\* VideoMetadata.objects.filter(name=video.name, tournament=tournament).exists()
has_metadata(tab, video, tournament) ==
    \E pk \in 1 .. Len(tab) :
        tab[pk].name = video /\ tab[pk].tournament = tournament

\* the body of the loop for one video without VideoMetadata: the table it
\* leaves and the exception it raises if any
sync_one(tab, cat, tournaments, video, tournament) ==
    LET pair == identify_team(cat, video,
                               CHOOSE r \in requests(cat, video) : TRUE)
        new_vid == VideoMetadataManager_create(
                       tab, cat, tournaments,
                       [name |-> video, tournament |-> tournament,
                        team1 |-> pair[1], team2 |-> pair[2], tc |-> 0])
    IN  IF new_vid.err # "none" THEN new_vid
        ELSE IF ~ ({"x_offset", "y_offset", "zoom"}
                       \subseteq generate_miniature_parameters)
        THEN [tab |-> new_vid.tab, err |-> "TypeError"]
        ELSE [tab |-> [new_vid.tab EXCEPT ![Len(new_vid.tab)].miniature = TRUE],
              err |-> "none"]

RECURSIVE sync_loop(_, _, _, _, _, _, _)
\* the loop from the i-th video on; created collects the names it created
sync_loop(tab, cat, tournaments, videos, tournament, i, created) ==
    IF i > Len(videos) THEN [tab |-> tab, err |-> "none", created |-> created]
    ELSE IF has_metadata(tab, videos[i], tournament)
    THEN sync_loop(tab, cat, tournaments, videos, tournament, i + 1, created)
    ELSE
      LET one == sync_one(tab, cat, tournaments, videos[i], tournament)
      IN  IF one.err # "none"
          THEN [tab |-> one.tab, err |-> one.err, created |-> created]
          ELSE sync_loop(one.tab, cat, tournaments, videos, tournament, i + 1,
                         Append(created, videos[i]))

\* the whole action: the two tables it leaves, the exception that escapes it
\* if any and the names it reports as created
sync_videos(tab, yts, cat, tournaments, videos, tournament, first) ==
    LET looped == sync_loop(tab, cat, tournaments, videos, tournament, 1, <<>>)
    IN  [tab |-> looped.tab,
         yts |-> IF looped.err # "none" THEN yts
                 ELSE update_linked_video(looped.tab, yts, tournament, first),
         err |-> looped.err,
         created |-> looped.created]

(***************************************************************************)
(* Inputs.                                                                 *)
(***************************************************************************)
\* sizes of the frames handed to rescale_image
FrameSizes == {<<1920, 1080>>, <<1280, 720>>, <<2560, 1080>>, <<640, 480>>,
               <<1920, 810>>, <<1000, 563>>}

\* widths and heights of emblem images
LogoSizes == {<<100, 100>>, <<850, 850>>, <<4000, 100>>, <<100, 4000>>,
              <<1000, 1>>, <<1, 1000>>, <<850, 1>>}
Backgrounds == {"color", "badcolor", "image"}

\* the names and short names of the TeamLogo rows, and the file names
Names == {<<"a", "b">>, <<"x", "B">>}
ShortNames == {<<"a">>, <<"B">>, <<"A", "b">>}
Filenames == {<<"a", "b">>, <<"A", "B">>, <<"x", "b">>, <<"x">>, <<"X", "a">>}
\* the largest number of TeamLogo rows
MaxTeams == 3

\* the frame sizes of the rendered video, the logo files of the two teams and
\* the measure of the tournament name
VideoSizes == {<<1920, 1080>>, <<1280, 960>>}
TeamLogoFiles == {<<(<<100, 100>>), (<<4000, 100>>)>>, <<(<<100, 100>>), (<<1000, 1>>)>>}
TextDimensions == {<<400, 150>>}
\* the values PATCHed into the rescale fields, as numerators over Den
OffsetSamples == {-1, Den \div 2, Den + 1}
ZoomSamples == {Den - 1, Den, MaxZoomNum}
TimeCodes == {0, 1}
\* the largest primary key a TmpImage row gets
MaxPk == 4

\* the emblem sizes and title measures generate_miniature builds its two plates
\* from
PlateInputs == {[logo1 |-> <<100, 100>>, logo2 |-> <<100, 100>>,
                 text_dimensions |-> <<400, 150>>],
                [logo1 |-> <<4000, 100>>, logo2 |-> <<100, 4000>>,
                 text_dimensions |-> <<1200, 90>>]}

\* the TeamLogo table, the tournament names and the rendered video files the
\* tables of the synchronisation are filled from
SyncCatalog == <<[name |-> <<"a">>, short_name |-> <<"a">>],
                 [name |-> <<"b", "b">>, short_name |-> <<"b", "b">>]>>
TournamentNames == <<(<<"t">>), (<<"u">>)>>
VideoFileNames == {<<"a", "b", "b">>, <<"a", "x">>}
YtTitles == {<<"a", "x">>, <<"a", "b", "b">>}
\* the largest number of VideoMetadata rows and of YTVideo rows
MaxVideos == 2
MaxYt == 2
\* the dates and the privacy statuses of the videos of the channel, and the
\* largest number of its uploads
Dates == {0, 2}
Statuses == {"private", "public"}
MaxUploads == 2
\* the largest primary key of the TmpImage rows a delete() is followed on
MaxTmp == 3
\* the largest number of Game rows
MaxGames == 2
\* the source directories of a tournament: an absolute and a relative one
SourceDirs == {<<"/", "v">>, <<"v">>}
\* the names of the files that may be in the rushs directory
RushNames ==
    {<<"G", "X", "0", "1", "0", "0", "0", "1", ".", "M", "P", "4">>,
     <<"G", "X", "0", "2", "0", "0", "0", "1", ".", "M", "P", "4">>,
     <<"G", "X", "0", "1", "0", "0", "1", "2", ".", "M", "P", "4">>,
     <<"G", "H", "0", "1", "0", "0", "0", "1", ".", "M", "P", "4">>,
     <<"G", "X", "0", "1", "0", "0", "0", "1", ".", "t", "x", "t">>}

(***************************************************************************)
(* Initial values: nothing has been called yet.                            *)
(***************************************************************************)
NoWindow == [called |-> FALSE, ret |-> Img(<<0, 0>>)]
NoOverlay == [called |-> FALSE, background |-> "color", ret |-> Img(<<0, 0>>)]
NoTeams == [called |-> FALSE, filename |-> <<>>, request |-> <<>>, ret |-> <<0, 0>>]

InitWindowVars ==
    /\ rescale = Rescale_init(0, 0, Den)
    /\ frame = Img(<<1920, 1080>>)
    /\ window = NoWindow

InitOverlayVars ==
    /\ logos = <<Img(<<100, 100>>), Img(<<100, 100>>)>>
    /\ overlay = NoOverlay

InitTeamVars ==
    /\ catalog = <<>>
    /\ teams = NoTeams

NoGm == [called |-> FALSE, err |-> "none", msg |-> "",
         before |-> [TmpImage |-> {}, storage |-> {}, base_image |-> 0,
                     miniature_image |-> 0]]

NoApi == [called |-> FALSE, xoffset |-> Absent, yoffset |-> Absent,
          zoom |-> Absent, err |-> "none", msg |-> "", response |-> 0,
          miniature_before |-> 0]

InitDbVars ==
    /\ media = [video |-> <<1920, 1080>>, logo1 |-> <<100, 100>>,
                logo2 |-> <<100, 100>>, text_dimensions |-> <<400, 150>>,
                color |-> "color"]
    /\ db = [TmpImage |-> [k \in {} |-> <<>>], storage |-> {}, next_pk |-> 1,
             vm |-> [tournament |-> 1, time_code |-> 0,
                     miniature_x_offset |-> 0, miniature_y_offset |-> 0,
                     miniature_zoom |-> Den, base_image |-> 0,
                     miniature_image |-> 0, team1 |-> 1, team2 |-> 2]]
    /\ gm = NoGm
    /\ api = NoApi

NoMini == [called |-> FALSE, ret |-> Img(<<0, 0>>), cropped |-> Img(<<0, 0>>),
           zoomed |-> Img(<<0, 0>>), inputs_after |-> <<>>]

\* the head of build_miniature.generate_miniature: the overlay of the two
\* logos, the title plate and its position
build_plates(logo1, logo2, text_dimensions) ==
    LET tournament_title == generate_text_as_image(text_dimensions)
    IN  [logos |-> <<logo1, logo2>>,
         logos_after |-> build_team_overlay_inputs_after(logo1, logo2, "color"),
         overlay |-> build_team_overlay(logo1, logo2, "color"),
         title |-> tournament_title,
         pos |-> <<1920 - ((tournament_title.size[1] * 3) \div 4) - 80, 600>>]

InitAssembleVars ==
    /\ plates = build_plates(Img(<<100, 100>>), Img(<<100, 100>>), <<400, 150>>)
    /\ mini = NoMini

NoSync == [op |-> "none", tournament |-> 0, err |-> "none", created |-> <<>>,
           before |-> <<>>, yt_before |-> <<>>]

InitSyncVars ==
    /\ rendered = [t \in 1 .. 2 |-> {}]
    /\ videometadata = <<>>
    /\ ytvideo = <<>>
    /\ sync = NoSync

NoYt == [op |-> "none", from_date |-> 0, ret |-> <<>>, uploads |-> <<>>]

InitYtVars ==
    /\ channel = <<>>
    /\ yt = NoYt

Idle == [pc |-> "idle", pk |-> 0, had_file |-> FALSE, err |-> "none"]

InitTmpVars ==
    /\ tmpimage = {}
    /\ tmpfiles = {}
    /\ deleting = Idle

NoGg == [called |-> FALSE, before |-> <<>>]

InitGamesVars ==
    /\ rushs = [source_dir |-> <<"/", "v">>, names |-> {}]
    /\ game = <<>>
    /\ gg = NoGg

Init ==
    /\ InitWindowVars /\ InitOverlayVars /\ InitTeamVars /\ InitDbVars
    /\ InitAssembleVars /\ InitSyncVars /\ InitYtVars /\ InitTmpVars
    /\ InitGamesVars

(***************************************************************************)
(* Specification of the frame window: Rescale and rescale_image.           *)
(***************************************************************************)
\* a frame is decoded
OpenFrame ==
    \E s \in FrameSizes :
        /\ frame' = Img(s)
        /\ window' = NoWindow
        /\ mini' = NoMini
        /\ UNCHANGED <<rescale, plates, overlayVars, teamVars, dbVars, syncVars, ytVars, tmpVars, gamesVars>>

\* Rescale(x_offset=x, y_offset=y, zoom=z)
NewRescale ==
    \E x \in OffsetNums, y \in OffsetNums, z \in ZoomNums :
        /\ rescale' = Rescale_init(x, y, z)
        /\ window' = NoWindow
        /\ mini' = NoMini
        /\ UNCHANGED <<frame, plates, overlayVars, teamVars, dbVars, syncVars, ytVars, tmpVars, gamesVars>>

\* rescale_image(image=frame, rescale=rescale)
CallRescaleImage ==
    /\ rescale.err = "none"
    /\ window' = [called |-> TRUE, ret |-> rescale_image(frame, rescale)]
    /\ UNCHANGED <<rescale, frame, assembleVars, overlayVars, teamVars, dbVars, syncVars, ytVars, tmpVars, gamesVars>>

NextWindow == OpenFrame \/ NewRescale \/ CallRescaleImage

SpecWindow == Init /\ [][NextWindow]_vars

(***************************************************************************)
(* Specification of the emblem overlay: build_team_overlay.                *)
(***************************************************************************)
\* two emblem images are opened
OpenLogos ==
    \E s1 \in LogoSizes, s2 \in LogoSizes :
        /\ logos' = <<Img(s1), Img(s2)>>
        /\ overlay' = NoOverlay
        /\ UNCHANGED <<windowVars, teamVars, dbVars, assembleVars, syncVars, ytVars, tmpVars, gamesVars>>

\* build_team_overlay(logos[1], logos[2], background)
CallBuildTeamOverlay ==
    \E background \in Backgrounds :
        /\ overlay' = [called |-> TRUE, background |-> background,
                       ret |-> build_team_overlay(logos[1], logos[2], background)]
        /\ UNCHANGED <<logos, windowVars, teamVars, dbVars, assembleVars, syncVars, ytVars, tmpVars, gamesVars>>

NextOverlay == OpenLogos \/ CallBuildTeamOverlay

SpecOverlay == Init /\ [][NextOverlay]_vars

(***************************************************************************)
(* Specification of the emblem matcher: TeamLogo.identify_team.            *)
(***************************************************************************)
\* a TeamLogo is registered
AddTeamLogo ==
    \E n \in Names, sn \in ShortNames :
        /\ Len(catalog) < MaxTeams
        /\ catalog' = Append(catalog, [name |-> n, short_name |-> sn])
        /\ teams' = NoTeams
        /\ UNCHANGED <<windowVars, overlayVars, dbVars, assembleVars, syncVars, ytVars, tmpVars, gamesVars>>

\* TeamLogo.identify_team(filename)
CallIdentifyTeam ==
    \E filename \in Filenames :
        \E request \in requests(catalog, filename) :
            /\ teams' = [called |-> TRUE, filename |-> filename,
                         request |-> request,
                         ret |-> identify_team(catalog, filename, request)]
            /\ UNCHANGED <<catalog, windowVars, overlayVars, dbVars, assembleVars, syncVars, ytVars, tmpVars, gamesVars>>

NextTeams == AddTeamLogo \/ CallIdentifyTeam

SpecTeams == Init /\ [][NextTeams]_vars

(***************************************************************************)
(* Specification of the stored miniature of one VideoMetadata row.         *)
(***************************************************************************)
\* the rendered video and the team logo files are put on disk
PutMedia ==
    \E v \in VideoSizes, l \in TeamLogoFiles, t \in TextDimensions :
        /\ media' = [video |-> v, logo1 |-> l[1], logo2 |-> l[2],
                     text_dimensions |-> t, color |-> "color"]
        /\ gm' = NoGm
        /\ api' = NoApi
        /\ UNCHANGED <<db, windowVars, overlayVars, teamVars, assembleVars, syncVars, ytVars, tmpVars, gamesVars>>

\* PATCH of miniature_x_offset, miniature_y_offset and miniature_zoom
PatchRescale ==
    \E x \in OffsetSamples, y \in OffsetSamples, z \in ZoomSamples :
        /\ db' = [db EXCEPT !.vm.miniature_x_offset = x,
                            !.vm.miniature_y_offset = y,
                            !.vm.miniature_zoom = z]
        /\ gm' = NoGm
        /\ api' = NoApi
        /\ UNCHANGED <<media, windowVars, overlayVars, teamVars, assembleVars, syncVars, ytVars, tmpVars, gamesVars>>

\* PATCH of time_code
PatchTimeCode ==
    \E tc \in TimeCodes :
        /\ db' = [db EXCEPT !.vm.time_code = tc]
        /\ gm' = NoGm
        /\ api' = NoApi
        /\ UNCHANGED <<media, windowVars, overlayVars, teamVars, assembleVars, syncVars, ytVars, tmpVars, gamesVars>>

\* PATCH of tournament and team1 (both nullable)
PatchRelations ==
    \E t \in {0, 1}, t1 \in {0, 1} :
        /\ db' = [db EXCEPT !.vm.tournament = t, !.vm.team1 = t1]
        /\ gm' = NoGm
        /\ api' = NoApi
        /\ UNCHANGED <<media, windowVars, overlayVars, teamVars, assembleVars, syncVars, ytVars, tmpVars, gamesVars>>

\* VideoMetadata.generate_miniature() on the row
CallGenerateMiniature ==
    /\ db.next_pk + 1 <= MaxPk
    /\ LET out == VideoMetadata_generate_miniature(db, media)
       IN  /\ db' = out.db
           /\ gm' = [called |-> TRUE, err |-> out.err, msg |-> out.msg,
                     before |-> [TmpImage |-> DOMAIN db.TmpImage,
                                 storage |-> db.storage,
                                 base_image |-> db.vm.base_image,
                                 miniature_image |-> db.vm.miniature_image]]
    /\ api' = NoApi
    /\ UNCHANGED <<media, windowVars, overlayVars, teamVars, assembleVars, syncVars, ytVars, tmpVars, gamesVars>>

NextDb ==
    PutMedia \/ PatchRescale \/ PatchTimeCode \/ PatchRelations
        \/ CallGenerateMiniature

SpecDb == Init /\ [][NextDb]_vars

(***************************************************************************)
(* Specification of the API action on the VideoMetadata row.               *)
(***************************************************************************)
\* the values a request carries, Absent for a key it does not have
RequestOffsets == {Absent, Den \div 2, Den + 1}
RequestZooms == {Absent, Den - 1, MaxZoomNum}
RequestTeams == {Absent, 1, 3}

\* the row and the response the action leaves
PostResult(x, y, z, out) ==
    /\ db' = out.db
    /\ api' = [called |-> TRUE, xoffset |-> x, yoffset |-> y, zoom |-> z,
               err |-> out.err, msg |-> out.msg, response |-> out.response,
               miniature_before |-> db.vm.miniature_image]

\* POST generate_miniature with request.data = data
PostGenerateMiniature ==
    \E x \in RequestOffsets, y \in {Absent, Den \div 2}, z \in RequestZooms,
       tc \in {Absent, 1}, t1 \in RequestTeams, t2 \in {Absent, 2} :
        /\ db.next_pk + 1 <= MaxPk
        /\ LET data == [xoffset |-> x, yoffset |-> y, zoom |-> z,
                        timeCode |-> tc, team1 |-> t1, team2 |-> t2]
           IN  PostResult(x, y, z,
                          VideoMetadataViewSet_generate_miniature(db, media, data))
        /\ gm' = NoGm
        /\ UNCHANGED <<media, windowVars, overlayVars, teamVars, assembleVars, syncVars, ytVars, tmpVars, gamesVars>>

NextApi ==
    PatchTimeCode \/ PatchRelations \/ CallGenerateMiniature
        \/ PostGenerateMiniature

SpecApi == Init /\ [][NextApi]_vars

(***************************************************************************)
(* Specification of the compositor: assemble_miniature on a decoded frame. *)
(***************************************************************************)
\* generate_miniature opens the two logos and builds the overlay and the title
BuildPlates ==
    \E i \in PlateInputs :
        /\ build_team_overlay(Img(i.logo1), Img(i.logo2), "color").err = "none"
        /\ plates' = build_plates(Img(i.logo1), Img(i.logo2), i.text_dimensions)
        /\ mini' = NoMini
        /\ UNCHANGED <<windowVars, overlayVars, teamVars, dbVars, syncVars, ytVars, tmpVars, gamesVars>>

\* assemble_miniature(frame, plates.overlay, plates.title, plates.pos, rescale)
CallAssembleMiniature ==
    /\ rescale.err = "none"
    /\ mini' = [called |-> TRUE,
                ret |-> assemble_miniature(frame, plates.overlay, plates.title,
                                           plates.pos, rescale),
                cropped |-> aspect_crop(frame),
                zoomed |-> zoomed_image(aspect_crop(frame), rescale),
                inputs_after |-> assemble_miniature_inputs_after(
                                     frame, plates.overlay, plates.title,
                                     plates.pos, rescale)]
    /\ UNCHANGED <<plates, windowVars, overlayVars, teamVars, dbVars, syncVars, ytVars, tmpVars, gamesVars>>

NextAssemble == OpenFrame \/ NewRescale \/ BuildPlates \/ CallAssembleMiniature

SpecAssemble == Init /\ [][NextAssemble]_vars

(***************************************************************************)
(* Specification of the synchronisation of a tournament: sync_videos on    *)
(* the VideoMetadata and YTVideo tables.                                   *)
(***************************************************************************)
otherThanSync ==
    <<windowVars, overlayVars, teamVars, dbVars, assembleVars, ytVars, tmpVars, gamesVars>>

\* the orders in which iterdir may list the files of a directory
listings(files) ==
    {l \in [1 .. Cardinality(files) -> files] :
        \A i, j \in 1 .. Cardinality(files) : i # j => l[i] # l[j]}

\* a video is rendered into the directory of a tournament
RenderVideo ==
    \E t \in 1 .. 2, n \in VideoFileNames :
        /\ n \notin rendered[t]
        /\ rendered' = [rendered EXCEPT ![t] = @ \cup {n}]
        /\ sync' = NoSync
        /\ UNCHANGED <<videometadata, ytvideo, otherThanSync>>

\* POST of a VideoMetadata: the serializer calls VideoMetadata.objects.create
\* with the validated fields
PostVideoMetadata ==
    \E n \in VideoFileNames, t \in 1 .. 2 :
        /\ Len(videometadata) < MaxVideos
        /\ LET out == VideoMetadataManager_create(
                          videometadata, SyncCatalog, TournamentNames,
                          [name |-> n, tournament |-> t, team1 |-> 1,
                           team2 |-> 2, time_code |-> 0])
           IN  /\ videometadata' = out.tab
               /\ sync' = [NoSync EXCEPT !.op = "create", !.tournament = t,
                                         !.err = out.err,
                                         !.before = videometadata]
        /\ UNCHANGED <<rendered, ytvideo, otherThanSync>>

\* a YTVideo row is stored, linked to a VideoMetadata or to none
StoreYTVideo ==
    \E title \in YtTitles, link \in 0 .. Len(videometadata) :
        /\ Len(ytvideo) < MaxYt
        /\ ytvideo' = Append(ytvideo, [video_id |-> Len(ytvideo) + 1,
                                       title |-> title, linked_video |-> link,
                                       publication_date |-> 0,
                                       privacy_status |-> "private"])
        /\ sync' = NoSync
        /\ UNCHANGED <<rendered, videometadata, otherThanSync>>

\* POST sync_videos on the tournament t
SyncVideos ==
    \E t \in 1 .. 2 :
        \E videos \in listings(rendered[t]) :
            /\ Len(videometadata) + Len(videos) <= MaxVideos
            /\ \E first \in firsts(sync_loop(videometadata, SyncCatalog,
                                              TournamentNames, videos, t, 1,
                                              <<>>).tab, ytvideo, t) :
                   LET out == sync_videos(videometadata, ytvideo, SyncCatalog,
                                          TournamentNames, videos, t, first)
                   IN  /\ videometadata' = out.tab
                       /\ ytvideo' = out.yts
                       /\ sync' = [op |-> "sync_videos", tournament |-> t,
                                   err |-> out.err, created |-> out.created,
                                   before |-> videometadata,
                                   yt_before |-> ytvideo]
            /\ UNCHANGED <<rendered, otherThanSync>>

NextSync == RenderVideo \/ PostVideoMetadata \/ StoreYTVideo \/ SyncVideos

SpecSync == Init /\ [][NextSync]_vars

(***************************************************************************)
(* Specification of the mirror of the YouTube channel: get_all_videos and  *)
(* youtube_update.                                                         *)
(***************************************************************************)
otherThanYt ==
    <<windowVars, overlayVars, teamVars, dbVars, assembleVars, rendered, tmpVars,
      gamesVars>>

\* a video is uploaded to the channel
Upload ==
    \E title \in YtTitles, date \in Dates, status \in Statuses :
        /\ Len(channel) < MaxUploads
        /\ channel' = Append(channel, [video_id |-> Len(channel) + 1,
                                       title |-> title, date |-> date,
                                       status |-> status])
        /\ yt' = NoYt
        /\ UNCHANGED <<videometadata, ytvideo, sync, otherThanYt>>

\* the title, the date or the status of the oldest upload is changed on
\* YouTube
EditUpload ==
    \E title \in YtTitles, date \in Dates, status \in Statuses :
        /\ channel # <<>>
        /\ channel' = [channel EXCEPT ![1].title = title, ![1].date = date,
                                      ![1].status = status]
        /\ yt' = NoYt
        /\ UNCHANGED <<videometadata, ytvideo, sync, otherThanYt>>

\* a VideoMetadata named after a title is stored
StoreVideoMetadata ==
    \E n \in YtTitles :
        /\ Len(videometadata) < 1
        /\ videometadata' =
               VideoMetadataManager_create(
                   videometadata, SyncCatalog, TournamentNames,
                   [name |-> n, tournament |-> 1, team1 |-> 1, team2 |-> 2,
                    time_code |-> 0]).tab
        /\ yt' = NoYt
        /\ UNCHANGED <<channel, ytvideo, sync, otherThanYt>>

\* YTInteraction().get_all_videos(from_date)
CallGetAllVideos ==
    \E from_date \in {DefaultFromDate, 2} :
        /\ yt' = [op |-> "get_all_videos", from_date |-> from_date,
                  ret |-> get_all_videos(channel, from_date),
                  uploads |-> channel]
        /\ UNCHANGED <<channel, videometadata, ytvideo, sync, otherThanYt>>

\* YTVideo.youtube_update(tournament, sync_local_videos=...)
CallYoutubeUpdate ==
    \E t \in 1 .. 2, sync_local_videos \in BOOLEAN,
       first \in 0 .. Len(videometadata) :
        /\ ytvideo' = youtube_update(ytvideo, videometadata, channel, t,
                                     sync_local_videos, first)
        /\ yt' = [op |-> "youtube_update", from_date |-> DefaultFromDate,
                  ret |-> <<>>, uploads |-> channel]
        /\ UNCHANGED <<channel, videometadata, sync, otherThanYt>>

NextYoutube ==
    Upload \/ EditUpload \/ StoreVideoMetadata \/ CallGetAllVideos
        \/ CallYoutubeUpdate

SpecYoutube == Init /\ [][NextYoutube]_vars

(***************************************************************************)
(* Specification of TmpImage.delete, statement by statement: the storage   *)
(* and the database are two stores, and super().delete() may fail.         *)
(***************************************************************************)
otherThanTmp ==
    <<windowVars, overlayVars, teamVars, dbVars, assembleVars, syncVars, ytVars,
      gamesVars>>

\* from_pil(image) and save(): the file is stored and the row inserted
SaveTmpImage ==
    \E pk \in (1 .. MaxTmp) \ tmpimage :
        /\ deleting.pc = "idle"
        /\ tmpimage' = tmpimage \cup {pk}
        /\ tmpfiles' = tmpfiles \cup {pk}
        /\ deleting' = Idle
        /\ UNCHANGED otherThanTmp

\* delete() up to the call of super().delete():
\*     if storage.exists(self.image.name): storage.delete(self.image.name)
StorageDelete ==
    \E pk \in tmpimage :
        /\ deleting.pc = "idle"
        /\ tmpfiles' = IF pk \in tmpfiles THEN tmpfiles \ {pk} ELSE tmpfiles
        /\ deleting' = [pc |-> "super_delete", pk |-> pk,
                        had_file |-> pk \in tmpfiles, err |-> "none"]
        /\ UNCHANGED <<tmpimage, otherThanTmp>>

\* return super().delete(...): the row is deleted
SuperDelete ==
    /\ deleting.pc = "super_delete"
    /\ tmpimage' = tmpimage \ {deleting.pk}
    /\ deleting' = [deleting EXCEPT !.pc = "idle"]
    /\ UNCHANGED <<tmpfiles, otherThanTmp>>

\* super().delete(...) raises: the database refuses the deletion and the row
\* stays
SuperDeleteFails ==
    /\ deleting.pc = "super_delete"
    /\ deleting' = [deleting EXCEPT !.pc = "idle", !.err = "DatabaseError"]
    /\ UNCHANGED <<tmpimage, tmpfiles, otherThanTmp>>

NextTmp == SaveTmpImage \/ StorageDelete \/ SuperDelete \/ SuperDeleteFails

SpecTmp == Init /\ [][NextTmp]_vars

(***************************************************************************)
(* Specification of the games of a tournament: generate_games on the rushs *)
(* directory and the Game table.                                           *)
(***************************************************************************)
otherThanGames ==
    <<windowVars, overlayVars, teamVars, dbVars, assembleVars, syncVars, ytVars,
      tmpVars>>

\* the source directory of the tournament is set
SetSourceDir ==
    \E d \in SourceDirs :
        /\ rushs' = [rushs EXCEPT !.source_dir = d]
        /\ gg' = NoGg
        /\ UNCHANGED <<game, otherThanGames>>

\* the camera's file is copied into the rushs directory
PutRush ==
    \E n \in RushNames :
        /\ rushs' = [rushs EXCEPT !.names = rushs.names \cup {n}]
        /\ gg' = NoGg
        /\ UNCHANGED <<game, otherThanGames>>

\* a Game is stored through the admin site
StoreGame ==
    \E key \in {1, 12}, based \in BOOLEAN :
        /\ Len(game) < MaxGames
        /\ game' = Append(game, [name |-> str(key),
                                 source_name |-> IF based THEN base_name(key)
                                                 ELSE str(key),
                                 video_id |-> <<1>>])
        /\ gg' = NoGg
        /\ UNCHANGED <<rushs, otherThanGames>>

\* tournament.generate_games()
CallGenerateGames ==
    \E listing \in listings(rushs.names) :
        /\ game' = generate_games(game, rushs.source_dir, rushs.names, listing)
        /\ gg' = [called |-> TRUE, before |-> game]
        /\ UNCHANGED <<rushs, otherThanGames>>

NextGames == SetSourceDir \/ PutRush \/ StoreGame \/ CallGenerateGames

SpecGames == Init /\ [][NextGames]_vars

(***************************************************************************)
(* Properties.                                                             *)
(***************************************************************************)
\* zoom >= 1 and both offsets in [0, 1]
ValidRescale(r) ==
    /\ r.zoom >= Den
    /\ 0 <= r.x_offset /\ r.x_offset <= Den
    /\ 0 <= r.y_offset /\ r.y_offset <= Den

\* C1: for every rescale with zoom >= 1 and both offsets in [0, 1], and every
\* source frame size, rescale_image returns an image of exactly 1920x1080.
C1_WindowIs1920x1080 ==
    (window.called /\ ValidRescale(rescale)) =>
        (window.ret.err = "none" /\ window.ret.size = <<1920, 1080>>)

\* C1 witness: a zoomed window panned fully right on a frame that is not
\* 1920x1080; its crop box ends 600 columns beyond the zoomed image.
C1_Witness ==
    /\ window.called
    /\ rescale.zoom > Den /\ rescale.x_offset = Den /\ rescale.y_offset = Den
    /\ frame.size = <<640, 480>>
    /\ window.ret.size = <<1920, 1080>>
    /\ window.ret.off[1] + 1920 = IntTrunc(1920 * rescale.zoom, Den) + 600

\* C2 as stated: a Rescale with zoom < 1 or an offset outside [0, 1] fails at
\* construction, so that no such Rescale object exists.
C2_InvalidRescaleFailsAtConstruction ==
    (~ ValidRescale(rescale)) => rescale.err = "ValueError"

\* C2 amended: constructing a Rescale never fails, whatever its values; a
\* Rescale with zoom < 1 or an offset outside [0, 1] is rejected with
\* ValueError by rescale_image when it is used, and no image is returned.
C2_InvalidRescaleFailsInRescaleImage ==
    /\ rescale.err = "none"
    /\ (window.called /\ ~ ValidRescale(rescale)) =>
           (window.ret.err = "ValueError" /\ window.ret.size = <<0, 0>>)

\* C2 witness: a Rescale with zoom >= 1 and x_offset > 1 was constructed and
\* rescale_image rejected it.
C2_Witness ==
    /\ window.called
    /\ rescale.err = "none"
    /\ rescale.zoom >= Den /\ rescale.x_offset > Den /\ rescale.y_offset = 0
    /\ window.ret.err = "ValueError"

\* the two messages of the ValueError of an invalid rescale
InvalidRescaleMessages ==
    {"zoom must be >=1", "x_offset and y_offset must be between 0 and 1"}

\* C3: when VideoMetadata.generate_miniature fails because the rescale is
\* invalid, no TmpImage row or file has been created or deleted and the row's
\* base_image and miniature_image are what they were before the call.
C3_InvalidRescaleLeavesNoTrace ==
    (gm.called /\ gm.err = "ValueError" /\ gm.msg \in InvalidRescaleMessages) =>
        /\ DOMAIN db.TmpImage = gm.before.TmpImage
        /\ db.storage = gm.before.storage
        /\ db.vm.base_image = gm.before.base_image
        /\ db.vm.miniature_image = gm.before.miniature_image

\* the rows matching the file name of the last identify_team call
Matched == matching(catalog, teams.filename)

ShortLen(pk) == Len(catalog[pk].short_name)

\* pk has the shortest short_name among the rows of S
Shortest(pk, S) == pk \in S /\ \A other \in S : ShortLen(pk) <= ShortLen(other)

\* C4 as stated: whenever at least one entry matches, the best match (shortest
\* short_name) is in the last slot; with two or more matches the pair is
\* (secondBest, best).
C4_BestMatchIsLast ==
    (teams.called /\ Matched # {}) =>
        /\ Shortest(teams.ret[2], Matched)
        /\ Cardinality(Matched) >= 2 =>
               Shortest(teams.ret[1], Matched \ {teams.ret[2]})

\* C4 amended: with two or more matches the pair is (secondBest, best), the
\* best match (shortest short_name) in the last slot; with exactly one match
\* the pair is (the match, the catalog's first entry), the match in the first
\* slot.
C4_BestMatchIsLastOfTwo ==
    teams.called =>
        /\ Cardinality(Matched) >= 2 =>
               /\ Shortest(teams.ret[2], Matched)
               /\ Shortest(teams.ret[1], Matched \ {teams.ret[2]})
        /\ Cardinality(Matched) = 1 =>
               /\ teams.ret[1] \in Matched
               /\ teams.ret[2] = 1

\* C4 witness: exactly one entry matches, it is not the catalog's first entry,
\* and it is returned in the first slot.
C4_Witness ==
    /\ teams.called
    /\ Cardinality(Matched) = 1
    /\ 1 \notin Matched
    /\ teams.ret[1] \in Matched

\* C5 as stated: when exactly two entries match, the pair holds exactly those
\* two, the one with the shorter short_name in the first slot.
C5_ShorterFirst ==
    (teams.called /\ Cardinality(Matched) = 2) =>
        /\ {teams.ret[1], teams.ret[2]} = Matched
        /\ ShortLen(teams.ret[1]) <= ShortLen(teams.ret[2])

\* C5 amended: when exactly two entries match, the pair holds exactly those
\* two, the one with the shorter short_name in the second (last) slot.
C5_ShorterLast ==
    (teams.called /\ Cardinality(Matched) = 2) =>
        /\ {teams.ret[1], teams.ret[2]} = Matched
        /\ ShortLen(teams.ret[2]) <= ShortLen(teams.ret[1])

\* C5 witness: two matches with short names of different lengths, the
\* shorter one returned in the second slot.
C5_Witness ==
    /\ teams.called
    /\ Cardinality(Matched) = 2
    /\ ShortLen(teams.ret[2]) < ShortLen(teams.ret[1])

\* the catalog's first entry (None, 0, for an empty catalog)
FirstEntry == IF catalog = <<>> THEN 0 ELSE 1

\* C6: with no match the pair is two copies of the catalog's first entry;
\* with fewer than two matches every slot not filled by a match holds the
\* catalog's first entry (and the single match, if any, is in the pair).
C6_PaddedWithFirstEntry ==
    teams.called =>
        /\ Matched = {} => teams.ret = <<FirstEntry, FirstEntry>>
        /\ Cardinality(Matched) < 2 =>
               /\ Matched \subseteq {teams.ret[1], teams.ret[2]}
               /\ \A slot \in {1, 2} :
                      teams.ret[slot] \in Matched \/ teams.ret[slot] = FirstEntry

\* C6 witness: a catalog of several entries none of which matches, and both
\* slots hold its first entry.
C6_Witness ==
    /\ teams.called
    /\ Len(catalog) >= 2
    /\ Matched = {}
    /\ teams.ret = <<1, 1>>

\* C7: identify_team returns two emblems for every text and every catalog,
\* the empty catalog included: no slot is None.
C7_NeverNone ==
    teams.called => (teams.ret[1] # 0 /\ teams.ret[2] # 0)

\* c and d are the same letter up to case
SameLetter(c, d) ==
    \/ c = d
    \/ {c, d} \in {{"a", "A"}, {"b", "B"}, {"x", "X"}}

\* s occurs in text up to the case of the letters
OccursIgnoringCase(text, s) ==
    \E i \in 0 .. (Len(text) - Len(s)) :
        \A k \in 1 .. Len(s) : SameLetter(text[i + k], s[k])

\* s occurs in text, letter for letter
OccursExactly(text, s) ==
    \E i \in 0 .. (Len(text) - Len(s)) :
        \A k \in 1 .. Len(s) : text[i + k] = s[k]

\* the rows the query of the last identify_team call returned
Selected == {teams.request[i] : i \in 1 .. Len(teams.request)}

\* C8 as stated: an emblem is selected only when its short_name or name occurs
\* in the text as a case-sensitive substring.
C8_CaseSensitiveMatch ==
    teams.called =>
        \A pk \in Selected :
            \/ OccursExactly(teams.filename, catalog[pk].short_name)
            \/ OccursExactly(teams.filename, catalog[pk].name)

\* C8 amended: an emblem is selected exactly when its short_name or name
\* occurs in the text as a case-insensitive substring: an entry whose names
\* occur in the text only with different letter case is selected too.
C8_CaseInsensitiveMatch ==
    teams.called =>
        \A pk \in 1 .. Len(catalog) :
            pk \in Selected <=>
                \/ OccursIgnoringCase(teams.filename, catalog[pk].short_name)
                \/ OccursIgnoringCase(teams.filename, catalog[pk].name)

\* C8 witness: the only entry selected has neither name in the text letter for
\* letter, and it is returned.
C8_Witness ==
    /\ teams.called
    /\ Cardinality(Selected) = 1
    /\ \A pk \in Selected :
           /\ ~ OccursExactly(teams.filename, catalog[pk].short_name)
           /\ ~ OccursExactly(teams.filename, catalog[pk].name)
           /\ teams.ret[1] = pk

\* C9: for every pair of emblems of positive width and height, whatever
\* their aspect ratio, build_team_overlay (with a colour background) returns
\* a 1920x1080 image and rescale_logo gives each emblem a size within 850x850.
C9_OverlayForEveryEmblemSize ==
    (overlay.called /\ overlay.background = "color") =>
        /\ overlay.ret.err = "none"
        /\ overlay.ret.size = <<1920, 1080>>
        /\ \A i \in {1, 2} :
               /\ rescale_logo(logos[i]).err = "none"
               /\ rescale_logo(logos[i]).size[1] <= 850
               /\ rescale_logo(logos[i]).size[2] <= 850

\* C10: with a background that is not a string build_team_overlay raises
\* NotImplementedError and returns no overlay; with a string background it
\* never raises NotImplementedError.
C10_UnsupportedBackground ==
    overlay.called =>
        /\ overlay.background = "image" =>
               (overlay.ret.err = "NotImplementedError"
                    /\ overlay.ret.size = <<0, 0>> /\ overlay.ret.layers = <<>>)
        /\ overlay.background # "image" => overlay.ret.err # "NotImplementedError"

\* C10 witness: build_team_overlay was called with an image as background
\* and raised NotImplementedError.
C10_Witness ==
    /\ overlay.called
    /\ overlay.background = "image"
    /\ overlay.ret.err = "NotImplementedError"

\* assemble_miniature returned the finished canvas
Assembled == mini.called /\ mini.ret.err = "none"

\* the names of the pastes made on img, oldest first
LayerNames(img) == [i \in 1 .. Len(img.layers) |-> img.layers[i].name]

\* C11: assemble_miniature pastes its layers in the fixed order frame window,
\* wash, emblem overlay with its shadow, title plate with its shadow; no layer
\* is pasted before one that lies below it.
C11_LayerOrder ==
    Assembled =>
        /\ LayerNames(mini.ret) =
               <<"rescaled_image", "alpha_mask", "shadow_logo", "shadow_logo">>
        /\ mini.ret.layers[3].size =
               <<2 * plates.overlay.size[1], 2 * plates.overlay.size[2]>>
        /\ mini.ret.layers[3].shade = 20
        /\ mini.ret.layers[4].size = plates.title.size
        /\ mini.ret.layers[4].pos = plates.pos

\* C11 witness: a finished canvas of a zoomed frame that is not 1920x1080.
C11_Witness ==
    /\ Assembled
    /\ frame.size = <<1280, 720>>
    /\ rescale.zoom = MaxZoomNum
    /\ Len(mini.ret.layers) = 4

\* the pastes of the frame window on the finished canvas
FrameLayers == {i \in 1 .. Len(mini.ret.layers) :
                   mini.ret.layers[i].name = "rescaled_image"}

\* C12: the frame window is pasted at (600, 0): for every frame size and every
\* valid rescale no canvas column 0..599 is written from the frame.
C12_FrameRightOf600 ==
    (Assembled /\ ValidRescale(rescale)) =>
        /\ FrameLayers # {}
        /\ \A i \in FrameLayers :
              /\ mini.ret.layers[i].pos = <<600, 0>>
              /\ \A c \in {0, 599} :
                    ~ (mini.ret.layers[i].pos[1] <= c
                       /\ c < mini.ret.layers[i].pos[1] + mini.ret.layers[i].size[1])

\* C12 witness: the window of a frame wider than 16:9, panned fully left.
C12_Witness ==
    /\ Assembled
    /\ frame.size = <<2560, 1080>>
    /\ rescale.x_offset = 0
    /\ FrameLayers = {1}

\* the part of the canvas the wash reaches: the rectangle drawn on alpha_mask,
\* cut to the mask
WashExtent(layer) ==
    <<IF layer.size[1] < layer.inner[1] THEN layer.size[1] ELSE layer.inner[1],
      IF layer.size[2] < layer.inner[2] THEN layer.size[2] ELSE layer.inner[2]>>

\* C13: the wash covers the full 1920x1080 canvas for every source frame size,
\* frames wider than 16:9 or smaller than 1920x1080 included.
C13_WashCoversCanvas ==
    Assembled =>
        \E i \in 1 .. Len(mini.ret.layers) :
            /\ mini.ret.layers[i].name = "alpha_mask"
            /\ mini.ret.layers[i].pos = <<0, 0>>
            /\ WashExtent(mini.ret.layers[i])[1] >= 1920
            /\ WashExtent(mini.ret.layers[i])[2] >= 1080

\* the pastes of paste_image_with_shadow on img
ShadowLayers(img) == {i \in 1 .. Len(img.layers) :
                         img.layers[i].name = "shadow_logo"}

\* C14 as stated: at every use of paste_image_with_shadow the shadow is
\* pasted first and the source image is then pasted on top at full size.
C14_SourcePastedOverShadow ==
    Assembled =>
        /\ ShadowLayers(mini.ret) # {}
        /\ \A i \in ShadowLayers(mini.ret) :
              /\ i < Len(mini.ret.layers)
              /\ mini.ret.layers[i + 1].name = "image"
              /\ mini.ret.layers[i + 1].size = mini.ret.layers[i].size

\* C14 amended: at every use of paste_image_with_shadow exactly one paste is
\* made on the destination, that of the shadow canvas carrying the half-scale
\* copy of the source; the source is never pasted at full size.
C14_OnlyShadowCanvasPasted ==
    Assembled =>
        /\ LayerNames(plates.overlay) =
               <<"background_image", "shadow_logo", "shadow_logo">>
        /\ Len(mini.ret.layers) = 4
        /\ ShadowLayers(mini.ret) = {3, 4}
        /\ \A img \in {plates.overlay, mini.ret} :
              \A i \in 1 .. Len(img.layers) :
                  /\ img.layers[i].name # "image"
                  /\ i \in ShadowLayers(img) =>
                        img.layers[i].inner =
                            <<IntTrunc(img.layers[i].size[1], 2),
                              IntTrunc(img.layers[i].size[2], 2)>>

\* C14 witness: both uses in assemble_miniature and both in
\* build_team_overlay have run, on logos that are not square.
C14_Witness ==
    /\ Assembled
    /\ plates.logos[1].size = <<4000, 100>>
    /\ Cardinality(ShadowLayers(plates.overlay)) = 2
    /\ Cardinality(ShadowLayers(mini.ret)) = 2

\* C15: with x_offset = 1 and any zoom >= 1, canvas column 1919 shows the last
\* column of the scaled frame.
C15_RightEdgeShowsLastColumn ==
    (Assembled /\ rescale.x_offset = Den /\ rescale.zoom >= Den) =>
        LET l == mini.ret.layers[1]
        IN  /\ l.name = "rescaled_image"
            /\ l.pos[1] <= 1919 /\ 1919 < l.pos[1] + l.size[1]
            /\ l.inner_at[1] + (1919 - l.pos[1]) = mini.zoomed.size[1] - 1

\* C15 witness: a window panned fully right with a zoom that is not a whole
\* number.
C15_Witness ==
    /\ Assembled
    /\ rescale.x_offset = Den
    /\ rescale.zoom = Den + 1
    /\ mini.zoomed.size[1] = IntTrunc(1920 * (Den + 1), Den)

\* |a - n / d| < 1
Within1(a, n, d) == (a * d - n < d) /\ (n - a * d < d)

\* C16 as stated: the scaled frame has the width and the height of the
\* aspect-normalized frame, each multiplied by zoom, whatever that size is.
C16_ScaledFromNormalizedSize ==
    (Assembled /\ ValidRescale(rescale)) =>
        /\ Within1(mini.zoomed.size[1], mini.cropped.size[1] * rescale.zoom, Den)
        /\ Within1(mini.zoomed.size[2], mini.cropped.size[2] * rescale.zoom, Den)

\* C16 amended: the scaled frame is int(1920 * zoom) wide and int(1080 * zoom)
\* high whatever the size of the aspect-normalized frame; that is the
\* normalized size times zoom only when the normalized frame is 1920x1080.
C16_ScaledFrom1920x1080 ==
    (Assembled /\ ValidRescale(rescale)) =>
        /\ mini.zoomed.size = <<IntTrunc(1920 * rescale.zoom, Den),
                                IntTrunc(1080 * rescale.zoom, Den)>>
        /\ mini.cropped.size = <<1920, 1080>> =>
              /\ Within1(mini.zoomed.size[1],
                         mini.cropped.size[1] * rescale.zoom, Den)
              /\ Within1(mini.zoomed.size[2],
                         mini.cropped.size[2] * rescale.zoom, Den)

\* C16 witness: a normalized frame of 1280x720 scaled by 1 to 1920x1080.
C16_Witness ==
    /\ Assembled
    /\ mini.cropped.size = <<1280, 720>>
    /\ rescale.zoom = Den
    /\ mini.zoomed.size = <<1920, 1080>>

\* C17: the aspect normalization only crops: its box starts at (0, 0), is at
\* most w wide and h high, and is (h * 16 / 9, h) when w / h > 16 / 9 and
\* (w, w * 9 / 16) otherwise (crop rounds the box to whole pixels).
C17_NormalizationOnlyCrops ==
    mini.called =>
        LET w == frame.size[1]
            h == frame.size[2]
        IN  /\ mini.cropped.err = "none"
            /\ mini.cropped.off = <<0, 0>>
            /\ mini.cropped.size[1] <= w
            /\ mini.cropped.size[2] <= h
            /\ 9 * w > 16 * h =>
                  /\ mini.cropped.size[2] = h
                  /\ Within1(mini.cropped.size[1], 16 * h, 9)
            /\ 9 * w <= 16 * h =>
                  /\ mini.cropped.size[1] = w
                  /\ Within1(mini.cropped.size[2], 9 * w, 16)

\* C17 witness: a frame narrower than 16:9 whose 16:9 height, 562.5, is
\* rounded.
C17_Witness ==
    /\ mini.called
    /\ frame.size = <<1000, 563>>
    /\ mini.cropped.size = <<1000, 562>>

RequestedRescale ==
    [x_offset |-> data_get(api, "xoffset", Den),
     y_offset |-> data_get(api, "yoffset", 0),
     zoom |-> data_get(api, "zoom", Den)]

\* C20: for every request carrying valid values the generate_miniature action
\* of the API generates the miniature with the xoffset, yoffset and zoom of
\* the request and returns the serialized VideoMetadata.
C20_PostGeneratesMiniature ==
    (/\ api.called
     /\ ValidRescale(RequestedRescale)
     /\ db.vm.tournament # 0 /\ db.vm.team1 # 0 /\ db.vm.team2 # 0) =>
        /\ api.err = "none"
        /\ api.response # 0
        /\ db.vm.miniature_image # 0
        /\ db.vm.miniature_image # api.miniature_before
        /\ db.vm.miniature_x_offset = RequestedRescale.x_offset
        /\ db.vm.miniature_y_offset = RequestedRescale.y_offset
        /\ db.vm.miniature_zoom = RequestedRescale.zoom

\* the rendered files of the synchronised tournament that had no
\* VideoMetadata when sync_videos was called
Missing ==
    {n \in rendered[sync.tournament] :
        ~ has_metadata(sync.before, n, sync.tournament)}

\* C21: sync_videos creates one VideoMetadata, with its default miniature,
\* for every rendered video file of the tournament that has none yet, and
\* none for a file that has one; on an unchanged directory a second call
\* creates no record.
C21_SyncCreatesMissing ==
    sync.op = "sync_videos" =>
        /\ sync.err = "none"
        /\ Len(videometadata) = Len(sync.before) + Cardinality(Missing)
        /\ SubSeq(videometadata, 1, Len(sync.before)) = sync.before
        /\ \A n \in rendered[sync.tournament] :
              Cardinality({pk \in 1 .. Len(videometadata) :
                              /\ videometadata[pk].name = n
                              /\ videometadata[pk].tournament = sync.tournament}) = 1
        /\ \A pk \in (Len(sync.before) + 1) .. Len(videometadata) :
              videometadata[pk].miniature

\* the local rows of a video of the channel
LocalRows(video_id) ==
    {pk \in 1 .. Len(ytvideo) : ytvideo[pk].video_id = video_id}

\* C22: once youtube_update has completed, every video of the channel has
\* exactly one local YTVideo of its video_id, whose title, publication_date
\* and privacy_status are the remote ones, whatever they were before.
C22_LocalEqualsRemote ==
    yt.op = "youtube_update" =>
        \A i \in 1 .. Len(channel) :
            /\ Cardinality(LocalRows(channel[i].video_id)) = 1
            /\ \A pk \in LocalRows(channel[i].video_id) :
                  /\ ytvideo[pk].title = channel[i].title
                  /\ ytvideo[pk].publication_date = channel[i].date
                  /\ ytvideo[pk].privacy_status = channel[i].status

\* C23: get_all_videos(from_date) returns only videos whose date is on or
\* after from_date.
C23_OnlyFromDate ==
    yt.op = "get_all_videos" =>
        \A i \in 1 .. Len(yt.ret) : yt.ret[i].date >= yt.from_date

\* C24: TmpImage.delete removes the row before the file: a row on which
\* delete() has been called, and whose file was stored then, still has its
\* file as long as the row exists, also when the deletion of the row failed.
C24_RecordDeletedBeforeFile ==
    \A pk \in tmpimage :
        (deleting.pk = pk /\ deleting.had_file) => pk \in tmpfiles

\* the four-digit numbers of the files named GX<cc><nnnn>.MP4
Numbers == {int(exp_search(n).group2) : n \in {m \in rushs.names : exp_search(m).matched}}

\* C28: generate_games, called when there is no Game yet, leaves exactly one
\* Game per distinct number among the files named GX<cc><nnnn>.MP4.
C28_OneGamePerNumber ==
    (gg.called /\ gg.before = <<>>) =>
        /\ \A n \in Numbers :
              Cardinality({pk \in 1 .. Len(game) : game[pk].name = str(n)}) = 1
        /\ Len(game) = Cardinality(Numbers)

\* C25: in assemble_miniature the overlay is upscaled to 3840x2160 and
\* pasted with shadow at (-960, -540); its half-scale copy, 1920x1080, then
\* occupies exactly the canvas rectangle (0,0)-(1920,1080).
C25_OverlayCopyFillsCanvas ==
    Assembled =>
        LET l == mini.ret.layers[3]
        IN  /\ l.name = "shadow_logo"
            /\ l.size = <<3840, 2160>>
            /\ l.pos = <<-960, -540>>
            /\ l.inner = <<1920, 1080>>
            /\ <<l.pos[1] + l.inner_at[1], l.pos[2] + l.inner_at[2]>> = <<0, 0>>

\* C25 witness: a miniature has been assembled from an overlay of 1920x1080
\* that was upscaled and pasted with shade 20.
C25_Witness ==
    /\ Assembled
    /\ plates.overlay.size = <<1920, 1080>>
    /\ mini.ret.layers[3].shade = 20
    /\ mini.ret.layers[3].size = <<3840, 2160>>

\* the stored base image of the row carries the name generate_miniature
\* computes now: slug, video name and time code are those it was stored under
BaseImageCurrent ==
    /\ db.vm.base_image \in DOMAIN db.TmpImage
    /\ db.TmpImage[db.vm.base_image] = file_name(db.vm, "_base.jpeg").value

\* C26: a generate_miniature that completes on a row whose stored base image
\* is current keeps that base image: the row still points to it and it has
\* not been deleted.
C26_CurrentBaseImageReused ==
    [][(gm'.called /\ gm'.err = "none" /\ BaseImageCurrent) =>
          /\ db'.vm.base_image = db.vm.base_image
          /\ db.vm.base_image \in DOMAIN db'.TmpImage]_vars

\* C27: when sync_videos completes, a YTVideo whose title matches no
\* VideoMetadata of the tournament has the linked_video it had before.
C27_UnmatchedLinksKept ==
    (sync.op = "sync_videos" /\ sync.err = "none") =>
        \A pk \in 1 .. Len(ytvideo) :
            games(videometadata, sync.yt_before[pk], sync.tournament) = {} =>
                ytvideo[pk].linked_video = sync.yt_before[pk].linked_video

\* C29: the video_name of a row VideoMetadataManager.create has just stored
\* is the one reset_vid_name and make_metadata compute from the teams and the
\* tournament of the row, so that reset_vid_name would leave it as it is.
C29_CreateNameIsResetName ==
    (sync.op = "create" /\ sync.err = "none") =>
        LET row == videometadata[Len(videometadata)]
        IN  /\ row.video_name =
                   reset_vid_name(SyncCatalog, TournamentNames, row)
            /\ row.video_name =
                   make_metadata_vid_name(SyncCatalog, TournamentNames, row)

====
